---- MODULE Spec2Model ----
(***************************************************************************)
(* TaskManager (task_manager.py): an in-memory list of task records backed *)
(* by a JSON document that is read at construction and rewritten after     *)
(* every mutation, and the web adapter (ui_web/app.py) that shares one     *)
(* TaskManager between its request threads.                                *)
(***************************************************************************)
EXTENDS Integers, Sequences, FiniteSets, TLC

VARIABLES
    tasks,      \* self.tasks: the list of task dicts, in list order
    next_id,    \* self.next_id
    file,       \* the document at self.data_file
    alive,      \* TRUE when __init__ returned; FALSE when it raised
    loaded,     \* what the last __init__ found at self.data_file
    call,       \* the last operation called, with its arguments
    ret,        \* what that operation returned
    deleted,    \* ids whose task delete_task has removed
    onlyAdds,   \* the store was constructed empty and only add_task ran since
    clock,      \* the wall clock datetime.now() reads; every call takes one tick
    pc,         \* per web request: its position inside add_task
    local       \* per web request: the task dict it built, the next_id it read

vars == <<tasks, next_id, file, alive, loaded, call, ret, deleted, onlyAdds, clock, pc, local>>

----------------------------------------------------------------------------
\* Bounds of the model.

\* the calls made on the store in one run: the clock stops them
MaxOps == 4

\* the ids add_task may assign, and those update_task and delete_task are given
MaxId == MaxOps - 1

\* Input domains.
\* add_task is given the first title; update_task may write either
NewTitles == {"a"}
Titles == {"a", "b"}
Descriptions == {""}
Priorities == {"medium", "high"}
Statuses == {"pending", "completed"}
\* the timestamps a caller of update_task may write: one no clock read returns
Timestamps == {0}
Ids == 1..MaxId

\* The keys of a task dict, in the order add_task inserts them.
Keys == <<"id", "title", "description", "priority", "status", "created_at", "updated_at">>

KeySet == {Keys[i] : i \in DOMAIN Keys}

----------------------------------------------------------------------------
\* The backing document.

NoDoc == <<>>

Absent == [kind |-> "absent", doc |-> NoDoc]

\* text that json.load rejects with JSONDecodeError
Malformed == [kind |-> "malformed", doc |-> NoDoc]

\* bytes that the text-mode read cannot decode in every locale
Undecodable == [kind |-> "undecodable", doc |-> NoDoc]

\* json.dump of one task dict: its values in key order
EncodeTask(t) == [i \in DOMAIN Keys |-> t[Keys[i]]]

\* json.load of one object: the dict with the keys in document order
DecodeTask(o) == [k \in KeySet |-> o[CHOOSE i \in DOMAIN Keys : Keys[i] = k]]

\* save_tasks: the whole list, rewritten
SaveTasks(ts) == [kind |-> "json", doc |-> [i \in DOMAIN ts |-> EncodeTask(ts[i])]]

\* The outcomes of load_tasks on document f: the list it returns, or a raise.
LoadOutcomes(f) ==
    CASE f.kind = "absent" -> {[raised |-> FALSE, tasks |-> <<>>]}
      [] f.kind = "malformed" -> {[raised |-> FALSE, tasks |-> <<>>]}
      [] f.kind = "undecodable" ->
            \* UnicodeDecodeError is not caught; a single-byte locale decodes
            \* the bytes and json.load then rejects the text
            {[raised |-> TRUE, tasks |-> <<>>], [raised |-> FALSE, tasks |-> <<>>]}
      [] f.kind = "json" ->
            {[raised |-> FALSE, tasks |-> [i \in DOMAIN f.doc |-> DecodeTask(f.doc[i])]]}

Max(S) == CHOOSE x \in S : \A y \in S : y <= x

get_next_id(ts) ==
    IF ts = <<>> THEN 1 ELSE Max({ts[i].id : i \in DOMAIN ts}) + 1

----------------------------------------------------------------------------
\* Helpers over the list.

HasId(ts, k) == \E i \in DOMAIN ts : ts[i].id = k

\* the first index whose task has id k (the linear scans stop at the first match)
FirstIndex(ts, k) == CHOOSE i \in DOMAIN ts : ts[i].id = k /\ \A j \in 1..(i-1) : ts[j].id # k

RemoveAt(ts, i) == [j \in 1..(Len(ts) - 1) |-> IF j < i THEN ts[j] ELSE ts[j + 1]]

\* for key, value in kwargs.items(): if key in task: task[key] = value
ApplyKwargs(t, kw) == [k \in DOMAIN t |-> IF k \in DOMAIN kw THEN kw[k] ELSE t[k]]

\* sorted(..., key=id): a stable insertion sort
RECURSIVE InsertById(_, _)
InsertById(s, t) ==
    IF s = <<>> THEN <<t>>
    ELSE IF s[Len(s)].id <= t.id THEN Append(s, t)
    ELSE Append(InsertById(SubSeq(s, 1, Len(s) - 1), t), s[Len(s)])

RECURSIVE SortedById(_)
SortedById(s) ==
    IF s = <<>> THEN <<>>
    ELSE InsertById(SortedById(SubSeq(s, 1, Len(s) - 1)), s[Len(s)])

\* a filter argument is applied only when it is truthy
Truthy(v) == v # "None" /\ v # ""

list_tasks_unsorted(ts, status, priority) ==
    LET byStatus == IF Truthy(status)
                    THEN SelectSeq(ts, LAMBDA t : t.status = status) ELSE ts
    IN  IF Truthy(priority)
        THEN SelectSeq(byStatus, LAMBDA t : t.priority = priority) ELSE byStatus

list_tasks(ts, status, priority) ==
    LET byStatus == IF Truthy(status)
                    THEN SelectSeq(ts, LAMBDA t : t.status = status) ELSE ts
        byBoth == IF Truthy(priority)
                  THEN SelectSeq(byStatus, LAMBDA t : t.priority = priority) ELSE byStatus
    IN  SortedById(byBoth)

----------------------------------------------------------------------------
\* Calls and return values.

NoKwargs == [k \in {} |-> ""]

Call(op) == [op |-> op, task_id |-> 0, status |-> "None", priority |-> "None"]

RetNone == [kind |-> "none"]
RetTask(t) == [kind |-> "task", task |-> t]
RetBool(b) == [kind |-> "bool", val |-> b]
RetList(s) == [kind |-> "list", val |-> s]

\* The keyword arguments update_task is called with: one field (the console),
\* title, description, priority and status together (the web form), an
\* unknown key, none.
KwargsSet ==
    {NoKwargs}
    \cup {("id" :> v) : v \in Ids}
    \cup {("title" :> v) : v \in Titles}
    \cup {("description" :> v) : v \in Descriptions}
    \cup {("priority" :> v) : v \in Priorities}
    \cup {("status" :> v) : v \in Statuses}
    \cup {("created_at" :> v) : v \in Timestamps}
    \cup {("updated_at" :> v) : v \in Timestamps}
    \cup {("colour" :> "red")}
    \cup {("title" :> t) @@ ("description" :> d) @@ ("priority" :> p) @@ ("status" :> s) :
            t \in Titles, d \in Descriptions, p \in Priorities, s \in Statuses}

FilterValues(S) == S \cup {"None", ""}

\* The two web requests that run create_task at the same time.
Threads == {1, 2}

IdlePc == [t \in Threads |-> "idle"]

NoLocal == [t \in Threads |-> [task |-> <<>>, n |-> 0]]

\* the dict add_task builds; both datetime.now() reads fall in one tick
NewTask(id, title, description, priority, now) ==
    [id |-> id, title |-> title, description |-> description, priority |-> priority,
     status |-> "pending", created_at |-> now, updated_at |-> now]

----------------------------------------------------------------------------
\* TaskManager(data_file): load_tasks, then get_next_id.  Init is the state
\* after the first construction, on a path that holds no document of the
\* program's yet.

Init ==
    \E f \in {Absent, Malformed, Undecodable} : \E o \in LoadOutcomes(f) :
        /\ file = f
        /\ alive = ~o.raised
        /\ tasks = o.tasks
        /\ next_id = IF o.raised THEN 0 ELSE get_next_id(o.tasks)
        /\ loaded = f.kind
        /\ call = Call("construct")
        /\ ret = RetNone
        /\ deleted = {}
        /\ onlyAdds = (~o.raised /\ o.tasks = <<>>)
        /\ clock = 1
        /\ pc = IdlePc
        /\ local = NoLocal

\* The process starts again and constructs a TaskManager on the same path.
Construct ==
    /\ clock <= MaxOps
    /\ \E o \in LoadOutcomes(file) :
        /\ alive' = ~o.raised
        /\ tasks' = o.tasks
        /\ next_id' = IF o.raised THEN 0 ELSE get_next_id(o.tasks)
        /\ onlyAdds' = (~o.raised /\ o.tasks = <<>>)
    /\ loaded' = file.kind
    /\ call' = Call("construct")
    /\ ret' = RetNone
    /\ clock' = clock + 1
    /\ UNCHANGED <<file, deleted, pc, local>>

add_task_no_increment ==
    /\ alive
    /\ clock <= MaxOps
    /\ next_id <= MaxId
    /\ \E title \in NewTitles, description \in Descriptions, priority \in Priorities :
        LET task == NewTask(next_id, title, description, priority, clock) IN
        /\ tasks' = Append(tasks, task)
        /\ next_id' = next_id
        /\ file' = SaveTasks(tasks')
        /\ ret' = RetTask(task)
    /\ call' = Call("add")
    /\ clock' = clock + 1
    /\ UNCHANGED <<alive, loaded, deleted, onlyAdds, pc, local>>

add_task ==
    /\ alive
    /\ clock <= MaxOps
    /\ next_id <= MaxId
    /\ \E title \in NewTitles, description \in Descriptions, priority \in Priorities :
        LET task == NewTask(next_id, title, description, priority, clock) IN
        /\ tasks' = Append(tasks, task)
        /\ next_id' = next_id + 1
        /\ file' = SaveTasks(tasks')
        /\ ret' = RetTask(task)
    /\ call' = Call("add")
    /\ clock' = clock + 1
    /\ UNCHANGED <<alive, loaded, deleted, onlyAdds, pc, local>>

update_task_always_saves ==
    /\ alive
    /\ clock <= MaxOps
    /\ \E k \in Ids, kw \in KwargsSet :
        /\ call' = [Call("update") EXCEPT !.task_id = k]
        /\ IF HasId(tasks, k)
           THEN LET i == FirstIndex(tasks, k)
                    t == [ApplyKwargs(tasks[i], kw) EXCEPT !.updated_at = clock]
                IN  /\ tasks' = [tasks EXCEPT ![i] = t]
                    /\ ret' = RetTask(t)
           ELSE /\ tasks' = tasks
                /\ ret' = RetNone
        /\ file' = SaveTasks(tasks')
    /\ onlyAdds' = FALSE
    /\ clock' = clock + 1
    /\ UNCHANGED <<next_id, alive, loaded, deleted, pc, local>>

update_task ==
    /\ alive
    /\ clock <= MaxOps
    /\ \E k \in Ids, kw \in KwargsSet :
        /\ call' = [Call("update") EXCEPT !.task_id = k]
        /\ IF HasId(tasks, k)
           THEN LET i == FirstIndex(tasks, k)
                    t == [ApplyKwargs(tasks[i], kw) EXCEPT !.updated_at = clock]
                IN  /\ tasks' = [tasks EXCEPT ![i] = t]
                    /\ file' = SaveTasks(tasks')
                    /\ ret' = RetTask(t)
           ELSE /\ ret' = RetNone
                /\ UNCHANGED <<tasks, file>>
    /\ onlyAdds' = FALSE
    /\ clock' = clock + 1
    /\ UNCHANGED <<next_id, alive, loaded, deleted, pc, local>>

delete_task_renumbers ==
    /\ alive
    /\ clock <= MaxOps
    /\ \E k \in Ids :
        /\ call' = [Call("delete") EXCEPT !.task_id = k]
        /\ IF HasId(tasks, k)
           THEN /\ tasks' = RemoveAt(tasks, FirstIndex(tasks, k))
                /\ next_id' = get_next_id(tasks')
                /\ file' = SaveTasks(tasks')
                /\ deleted' = deleted \cup {k}
                /\ ret' = RetBool(TRUE)
           ELSE /\ ret' = RetBool(FALSE)
                /\ UNCHANGED <<tasks, next_id, file, deleted>>
    /\ onlyAdds' = FALSE
    /\ clock' = clock + 1
    /\ UNCHANGED <<alive, loaded, pc, local>>

delete_task_no_save ==
    /\ alive
    /\ clock <= MaxOps
    /\ \E k \in Ids :
        /\ call' = [Call("delete") EXCEPT !.task_id = k]
        /\ IF HasId(tasks, k)
           THEN /\ tasks' = RemoveAt(tasks, FirstIndex(tasks, k))
                /\ deleted' = deleted \cup {k}
                /\ ret' = RetBool(TRUE)
           ELSE /\ ret' = RetBool(FALSE)
                /\ UNCHANGED <<tasks, deleted>>
    /\ onlyAdds' = FALSE
    /\ clock' = clock + 1
    /\ UNCHANGED <<next_id, file, alive, loaded, pc, local>>

delete_task ==
    /\ alive
    /\ clock <= MaxOps
    /\ \E k \in Ids :
        /\ call' = [Call("delete") EXCEPT !.task_id = k]
        /\ IF HasId(tasks, k)
           THEN /\ tasks' = RemoveAt(tasks, FirstIndex(tasks, k))
                /\ file' = SaveTasks(tasks')
                /\ deleted' = deleted \cup {k}
                /\ ret' = RetBool(TRUE)
           ELSE /\ ret' = RetBool(FALSE)
                /\ UNCHANGED <<tasks, file, deleted>>
    /\ onlyAdds' = FALSE
    /\ clock' = clock + 1
    /\ UNCHANGED <<next_id, alive, loaded, pc, local>>

ListTasks ==
    /\ alive
    /\ clock <= MaxOps
    /\ \E status \in FilterValues(Statuses), priority \in FilterValues(Priorities) :
        /\ call' = [Call("list") EXCEPT !.status = status, !.priority = priority]
        /\ ret' = RetList(list_tasks(tasks, status, priority))
    /\ onlyAdds' = FALSE
    /\ clock' = clock + 1
    /\ UNCHANGED <<tasks, next_id, file, alive, loaded, deleted, pc, local>>

Next == Construct \/ add_task \/ update_task \/ delete_task \/ ListTasks

Spec == Init /\ [][Next]_vars

\* add_task, delete_task and construction only.
NextLife == Construct \/ add_task \/ delete_task

SpecLife == Init /\ [][NextLife]_vars

----------------------------------------------------------------------------
\* The web adapter: app.py builds one TaskManager in create_app and every
\* request handler closes over it.  Two POST /tasks requests run create_task,
\* hence add_task, on their own threads; a request's steps are the reads and
\* writes of add_task on the shared object.

\* task = {'id': self.next_id, ...}
ReqBuild(t) ==
    /\ pc[t] = "idle"
    /\ \E title \in Titles, priority \in Priorities :
        local' = [local EXCEPT ![t].task = NewTask(next_id, title, "", priority, clock)]
    /\ clock' = clock + 1
    /\ pc' = [pc EXCEPT ![t] = "append"]
    /\ UNCHANGED <<tasks, next_id, file, alive, loaded, call, ret, deleted, onlyAdds>>

\* self.tasks.append(task)
ReqAppend(t) ==
    /\ pc[t] = "append"
    /\ tasks' = Append(tasks, local[t].task)
    /\ pc' = [pc EXCEPT ![t] = "load"]
    /\ UNCHANGED <<next_id, file, alive, loaded, call, ret, deleted, onlyAdds, clock, local>>

\* self.next_id += 1, the read
ReqLoad(t) ==
    /\ pc[t] = "load"
    /\ local' = [local EXCEPT ![t].n = next_id]
    /\ pc' = [pc EXCEPT ![t] = "store"]
    /\ UNCHANGED <<tasks, next_id, file, alive, loaded, call, ret, deleted, onlyAdds, clock>>

ReqStoreSame(t) ==
    /\ pc[t] = "store"
    /\ next_id' = local[t].n
    /\ pc' = [pc EXCEPT ![t] = "save"]
    /\ UNCHANGED <<tasks, file, alive, loaded, call, ret, deleted, onlyAdds, clock, local>>

\* self.next_id += 1, the write
ReqStore(t) ==
    /\ pc[t] = "store"
    /\ next_id' = local[t].n + 1
    /\ pc' = [pc EXCEPT ![t] = "save"]
    /\ UNCHANGED <<tasks, file, alive, loaded, call, ret, deleted, onlyAdds, clock, local>>

\* self.save_tasks()
ReqSave(t) ==
    /\ pc[t] = "save"
    /\ file' = SaveTasks(tasks)
    /\ pc' = [pc EXCEPT ![t] = "done"]
    /\ UNCHANGED <<tasks, next_id, alive, loaded, call, ret, deleted, onlyAdds, clock, local>>

\* create_app: the TaskManager is constructed on a path with no document, or
\* on the document an earlier run left after one add_task.
InitWeb ==
    \E ts \in {<<>>} \cup {<<NewTask(1, title, "", priority, 0)>> :
                            title \in Titles, priority \in Priorities} :
        /\ tasks = ts
        /\ file = IF ts = <<>> THEN Absent ELSE SaveTasks(ts)
        /\ next_id = get_next_id(ts)
        /\ alive = TRUE
        /\ loaded = IF ts = <<>> THEN "absent" ELSE "json"
        /\ call = Call("construct")
        /\ ret = RetNone
        /\ deleted = {}
        /\ onlyAdds = (ts = <<>>)
        /\ clock = 1
        /\ pc = IdlePc
        /\ local = NoLocal

NextWeb ==
    \E t \in Threads : ReqBuild(t) \/ ReqAppend(t) \/ ReqLoad(t) \/ ReqStore(t) \/ ReqSave(t)

SpecWeb == InitWeb /\ [][NextWeb]_vars

----------------------------------------------------------------------------
\* Properties.

Range(s) == {s[i] : i \in DOMAIN s}

Count(s, x) == Cardinality({i \in DOMAIN s : s[i] = x})

Succeeded == ret.kind = "task" \/ (ret.kind = "bool" /\ ret.val)

\* C1: the ids of the tasks in the collection are pairwise distinct in every
\* state reached by add_task, update_task and delete_task.
C1_IdsDistinct ==
    \A i, j \in DOMAIN tasks : i # j => tasks[i].id # tasks[j].id

\* C2: over add_task, delete_task and re-construction from the document, the
\* id add_task assigns is never one whose task delete_task removed before.
C2_NoReuse ==
    call.op = "add" => ret.task.id \notin deleted

\* C3, as stated: the add_task that follows a successful delete_task(k)
\* returns id 1 + max(remaining ids), or 1 when none remain, and not k.
C3_Original ==
    [][(call.op = "delete" /\ Succeeded /\ call'.op = "add")
        => /\ ret'.task.id = (IF tasks = <<>> THEN 1
                              ELSE Max({tasks[i].id : i \in DOMAIN tasks}) + 1)
           /\ ret'.task.id # call.task_id]_vars

\* C3, amended: delete_task leaves next_id as it was, and the add_task that
\* follows a successful delete_task(k) returns the id next_id, which is not k
\* whenever k was below next_id.
C3_AddAfterDelete ==
    [][/\ call'.op = "delete" => next_id' = next_id
       /\ (call.op = "delete" /\ Succeeded /\ call'.op = "add")
            => /\ ret'.task.id = next_id
               /\ call.task_id < next_id => ret'.task.id # call.task_id]_vars

\* add_task, delete_task(1), add_task: the second add_task returned id 2 to a
\* store that delete_task had emptied.
C3_Witness ==
    /\ call.op = "add"
    /\ clock = 4
    /\ deleted = {1}
    /\ Len(tasks) = 1
    /\ ret.task.id = 2

\* C4: from an empty store, N add_task calls and nothing else assign the ids
\* 1..N in call order and the collection holds the tasks in that order.
C4_SequentialIds ==
    onlyAdds =>
        /\ \A i \in DOMAIN tasks : tasks[i].id = i
        /\ call.op = "add" => ret = RetTask(tasks[Len(tasks)])

C4_Witness ==
    onlyAdds /\ Len(tasks) = 3 /\ call.op = "add"

\* C5: update_task on an existing id changes neither that task's id nor its
\* created_at, whatever keyword fields are supplied.
C5_IdAndCreatedAtKept ==
    [][(call'.op = "update" /\ ret'.kind = "task")
        => LET i == FirstIndex(tasks, call'.task_id) IN
           /\ tasks'[i].id = tasks[i].id
           /\ tasks'[i].created_at = tasks[i].created_at]_vars

\* C6: update_task with an id no task has returns None and leaves the
\* collection, next_id and the document unchanged.
C6_UpdateMissing ==
    [][(call'.op = "update" /\ ~HasId(tasks, call'.task_id))
        => (ret' = RetNone /\ UNCHANGED <<tasks, next_id, file>>)]_vars

C6_Witness ==
    call.op = "update" /\ ret = RetNone /\ tasks # <<>>

\* C7: after an add_task, update_task or delete_task that succeeded, the
\* document is the saved collection, and loading it gives the collection back:
\* the same tasks with the same fields in the same order.
C7_DocumentMatches ==
    (call.op \in {"add", "update", "delete"} /\ Succeeded)
        => /\ file = SaveTasks(tasks)
           /\ LoadOutcomes(file) = {[raised |-> FALSE, tasks |-> tasks]}

C7_Witness ==
    call.op = "delete" /\ Succeeded /\ Len(tasks) = 2

\* C8: constructing on a path whose document is absent, or present but not
\* valid JSON, raises nothing and gives an empty collection with next_id 1,
\* and the first add_task afterwards gets id 1.
C8_BadDocument ==
    /\ (call.op = "construct" /\ loaded # "json")
            => (alive /\ tasks = <<>> /\ next_id = 1)
    /\ (loaded # "json" /\ onlyAdds /\ call.op = "add" /\ Len(tasks) = 1)
            => ret.task.id = 1

Matches(t, status, priority) ==
    /\ Truthy(status) => t.status = status
    /\ Truthy(priority) => t.priority = priority

\* C9: list_tasks returns exactly the tasks that match every filter given
\* and not empty, each as often as the collection holds it, in ascending id
\* order, and changes neither the collection, next_id nor the document.
C9_ListTasks ==
    [][call'.op = "list"
        => /\ ret'.kind = "list"
           /\ \A i \in 1..(Len(ret'.val) - 1) : ret'.val[i].id <= ret'.val[i + 1].id
           /\ \A t \in Range(tasks) \cup Range(ret'.val) :
                Count(ret'.val, t) =
                    IF Matches(t, call'.status, call'.priority) THEN Count(tasks, t) ELSE 0
           /\ UNCHANGED <<tasks, next_id, file>>]_vars

\* list_tasks(status="pending") on two pending tasks that update_task left out
\* of id order: both come back, in another order than the collection's.
C9_Witness ==
    /\ call.op = "list"
    /\ call.status = "pending"
    /\ Len(ret.val) = 2
    /\ Len(tasks) = 2
    /\ ret.val # tasks

AllDone == \A t \in Threads : pc[t] = "done"

\* C10, as stated: when both requests have finished, their two tasks have
\* distinct ids and next_id is greater than every id in the collection.
C10_Original ==
    AllDone =>
        /\ local[1].task.id # local[2].task.id
        /\ \A i \in DOMAIN tasks : tasks[i].id < next_id

\* C10, amended: when both requests have finished, both tasks are in the
\* collection, their ids are equal or differ by one, and next_id is greater
\* than every id in the collection.
C10_BothAdded ==
    AllDone =>
        /\ \E i, j \in DOMAIN tasks :
                i # j /\ tasks[i] = local[1].task /\ tasks[j] = local[2].task
        /\ local[1].task.id - local[2].task.id \in {-1, 0, 1}
        /\ \A i \in DOMAIN tasks : tasks[i].id < next_id

\* both requests read next_id before either wrote it back
C10_Witness ==
    AllDone /\ local[1].task.id = local[2].task.id

====
